---- MODULE Spec2Model ----
(***************************************************************************)
(* Model of scripts/optimize_images.py: the batch image optimizer.         *)
(*                                                                         *)
(* The three directory trees (assets/img, assets/img_backup,               *)
(* assets/img_webp) are functions from relative file names to contents.    *)
(* A file name is the tuple of its dot-separated components, e.g.          *)
(* <<1, "jpg">> is "1.jpg" and <<1, "opt", "jpg">> is "1.opt.jpg", so that *)
(* Path.suffix and Path.with_suffix are computed as pathlib computes them. *)
(* A content is a record: the image it was made from (id), how many times  *)
(* it has been re-encoded (gen), its size in bytes and whether the imaging *)
(* library can decode it (ok).  Two contents are byte-identical iff the    *)
(* records are equal.                                                      *)
(***************************************************************************)
EXTENDS Integers, Sequences, FiniteSets, TLC

VARIABLES
    fs,          \* assets/img      : file name -> content
    backup,      \* assets/img_backup: file name -> content
    webp,        \* assets/img_webp : file name -> the image it was derived from
    dirs,        \* which of the roots "backup", "webp" exist as directories
    pc,          \* position of the running script
    args,        \* parsed command line of the current run
    images,      \* the list built by the scan in main
    idx,         \* loop index in main (1-based)
    cur,         \* locals of process_image for the current file
    stats,       \* the global stats dictionary
    exit_status, \* exit status of the last run (-1 while running / never run)
    reported,    \* generate_report has printed the summary in this run
    listing,     \* what list-large mode printed: the rows and the total
    runs,        \* number of runs started so far
    faults,      \* number of injected library / filesystem failures so far
    start,       \* history: the three trees and dirs when the run started
    replaced,    \* history: files the current run replaced
    firstOrig,   \* history: file -> content at the start of the first run
                 \*          that replaced it
    calls,       \* history: number of process_image calls in this run
    scanned,     \* history: the run has enumerated assets/img
    failed,      \* history: <<file, kind>> for every failure in this run
    HAS_PIL,     \* the module-level flag set by the import of the library
    outcome,     \* history: <<file, terminal state>> recorded in this run
    img,         \* optimize_jpeg / optimize_png: the image and the saved one
    page,        \* the HTML rewriters: content of the page file
    call,        \* the HTML rewriters: the last call and what it did
    pruns        \* the HTML rewriters: number of calls so far

vars == <<fs, backup, webp, dirs, pc, args, images, idx, cur, stats,
          exit_status, reported, listing, runs, faults, start, replaced,
          firstOrig, calls, scanned, failed, HAS_PIL, outcome, img, page,
          call, pruns>>

\* The variables of the HTML rewriters.
pagevars == <<page, call, pruns>>

\* The variables of the image optimizer's run.
optvars == <<fs, backup, webp, dirs, pc, args, images, idx, cur, stats,
             exit_status, reported, listing, runs, faults, start, replaced,
             firstOrig, calls, scanned, failed, HAS_PIL, outcome>>

(***************************************************************************)
(* Bounds of the model.                                                    *)
(***************************************************************************)
MaxFiles == 2      \* files in assets/img of the optimize specification
MaxRuns == 2       \* consecutive runs of the script
MaxFaults == 1     \* injected encode / copy failures over all runs
MaxListFiles == 52 \* files in assets/img of the list-large specification
MaxTies == 2       \* files at / just below the threshold in that tree

(***************************************************************************)
(* DEFAULT_CONFIG and the constants of main.                               *)
(***************************************************************************)
skip_small == 10240
min_savings_pct == 10    \* min_savings = 0.10, in hundredths
formats == {"jpg", "jpeg", "png", "gif"}
ShowTop == 50

(***************************************************************************)
(* Finite functions as directory trees.                                    *)
(***************************************************************************)
Put(f, k, v) == [x \in (DOMAIN f) \cup {k} |-> IF x = k THEN v ELSE f[x]]

\* An unlink that leaves the file where it is.
DelNothing(f, k) == f

Del(f, k) == [x \in (DOMAIN f) \ {k} |-> f[x]]

Exists(f, k) == k \in DOMAIN f

EmptyTree == [x \in {} |-> 0]

(***************************************************************************)
(* pathlib: suffix, with_suffix.                                           *)
(***************************************************************************)
Suffix(p) == p[Len(p)]

WithSuffix(p, comps) == SubSeq(p, 1, Len(p) - 1) \o comps

TempPath(p) == WithSuffix(p, <<"opt", Suffix(p)>>)

WebpPath(p) == WithSuffix(p, <<"webp">>)

BackupPath(p) == p

(***************************************************************************)
(* The trees the runs start from.                                          *)
(***************************************************************************)
Names == {<<1, "jpg">>, <<1, "opt", "jpg">>, <<1, "png">>, <<2, "gif">>}

InitSizes == {skip_small - 1, skip_small, 2 * skip_small}

Content(p, s, ok) == [id |-> p, gen |-> 0, size |-> s, ok |-> ok]

\* 1.jpg starts with one of the sizes, decodable, or large and undecodable;
\* the other files start large and decodable.
InitContents(p) ==
    IF p = <<1, "jpg">>
    THEN {Content(p, s, TRUE) : s \in InitSizes}
             \cup {Content(p, 2 * skip_small, FALSE)}
    ELSE {Content(p, 2 * skip_small, TRUE)}

Trees ==
    UNION {{f \in [D -> UNION {InitContents(p) : p \in D}] :
                \A p \in D : f[p].id = p} :
           D \in {E \in SUBSET Names : Cardinality(E) <= MaxFiles}}

\* The orders in which rglob may enumerate a tree: by name, or the reverse
\* (every order, for a tree of up to two files).
NameSeq == << <<1, "jpg">>, <<1, "opt", "jpg">>, <<1, "png">>, <<2, "gif">> >>

ScanOrders(tree) ==
    LET byName == SelectSeq(NameSeq, LAMBDA p : p \in DOMAIN tree)
        n == Len(byName)
    IN  {byName, [i \in 1..n |-> byName[n + 1 - i]]}

ListKBs == {0, 10}

ListArgs == {<<>>} \cup {<<kb>> : kb \in ListKBs}

NoCur == [path |-> <<>>, original_size |-> 0, success |-> FALSE,
          new_size |-> 0]

ZeroStats == [processed |-> 0, skipped |-> 0, errors |-> 0,
              original_size |-> 0, new_size |-> 0, webp_created |-> 0]

NoListing == [rows |-> <<>>, total |-> -1]

NoImg == [format |-> "", width |-> 0, height |-> 0, orientation |-> 1,
          saved |-> <<>>]

NoCall == [fn |-> "", read |-> <<>>, content |-> <<>>, wrote |-> FALSE,
           ret |-> FALSE]

Snapshot == [fs |-> fs, backup |-> backup, webp |-> webp, dirs |-> dirs]

InitFrom(trees, imgs, pages) ==
    /\ fs \in trees
    /\ backup = EmptyTree
    /\ webp = EmptyTree
    /\ dirs = {}
    /\ pc = "idle"
    /\ args = [dry_run |-> FALSE, list_large |-> <<>>]
    /\ images = <<>>
    /\ idx = 1
    /\ cur = NoCur
    /\ stats = ZeroStats
    /\ exit_status = -1
    /\ reported = FALSE
    /\ listing = NoListing
    /\ runs = 0
    /\ faults = 0
    /\ start = [fs |-> fs, backup |-> EmptyTree, webp |-> EmptyTree,
                dirs |-> {}]
    /\ replaced = {}
    /\ firstOrig = EmptyTree
    /\ calls = 0
    /\ scanned = FALSE
    /\ failed = {}
    /\ HAS_PIL = TRUE
    /\ outcome = {}
    /\ img \in imgs
    /\ page \in pages
    /\ call = NoCall
    /\ pruns = 0

Init == InitFrom(Trees, {NoImg}, {<<>>})

(***************************************************************************)
(* find_large_images and the listing printed by main.                      *)
(***************************************************************************)
Recognized(order) == SelectSeq(order, LAMBDA p : Suffix(p) \in formats)

IsLarge1000(size, min_size_kb) == size > min_size_kb * 1000

IsLarge(size, min_size_kb) == size > min_size_kb * 1024

\* list.sort(key=size, reverse=True): a stable sort, so the rows of the
\* largest size come first in the order they had, then the next size.
RECURSIVE SortDescBy(_, _)
SortDescBy(s, sizes) ==
    IF sizes = {} THEN <<>>
    ELSE LET m == CHOOSE x \in sizes : \A y \in sizes : y <= x
         IN  SelectSeq(s, LAMBDA r : r[2] = m) \o SortDescBy(s, sizes \ {m})

SortDesc(s) == SortDescBy(s, {s[i][2] : i \in 1..Len(s)})

find_large_images(tree, order, min_size_kb) ==
    LET rec == Recognized(order)
        sized == [i \in 1..Len(rec) |-> <<rec[i], tree[rec[i]].size>>]
    IN  SortDesc(SelectSeq(sized, LAMBDA r : IsLarge(r[2], min_size_kb)))

TopRows(large) ==
    SubSeq(large, 1, IF Len(large) < ShowTop THEN Len(large) ELSE ShowTop)

ListLargeMode(list_large) == list_large # <<>> /\ list_large[1] # 0

(***************************************************************************)
(* main: start of a run, up to the first loop iteration.                   *)
(***************************************************************************)
StartRun(dry, ll, pil) ==
    /\ pc \in {"idle", "exited"}
    /\ runs < MaxRuns
    /\ runs' = runs + 1
    /\ args' = [dry_run |-> dry, list_large |-> ll]
    /\ HAS_PIL' = pil
    /\ stats' = ZeroStats
    /\ start' = Snapshot
    /\ replaced' = {}
    /\ calls' = 0
    /\ failed' = {}
    /\ cur' = NoCur
    /\ reported' = FALSE
    /\ idx' = 1
    /\ outcome' = {}
    /\ UNCHANGED <<fs, backup, webp, faults, firstOrig, img, pagevars>>

\* The dependency check placed after the directories are created.
MainNoPilLate(dry, ll) ==
    /\ StartRun(dry, ll, FALSE)
    /\ pc' = "exited"
    /\ exit_status' = 1
    /\ images' = <<>>
    /\ listing' = NoListing
    /\ scanned' = FALSE
    /\ dirs' = dirs \cup {"backup", "webp"}

\* lines 330-335: parse_args, then the HAS_PIL check and sys.exit(1).
MainNoPil(dry, ll) ==
    /\ StartRun(dry, ll, FALSE)
    /\ pc' = "exited"
    /\ exit_status' = 1
    /\ images' = <<>>
    /\ listing' = NoListing
    /\ scanned' = FALSE
    /\ UNCHANGED dirs

\* lines 337-348: list-large mode.
MainListLarge(dry, ll, order) ==
    /\ StartRun(dry, ll, TRUE)
    /\ ListLargeMode(ll)
    /\ LET large == find_large_images(fs, order, ll[1])
       IN  listing' = [rows |-> TopRows(large), total |-> Len(large)]
    /\ scanned' = TRUE
    /\ images' = <<>>
    /\ pc' = "exited"
    /\ exit_status' = 0
    /\ UNCHANGED dirs

\* lines 350-378: directories, configuration, scan.
MainOptimize(dry, ll, order) ==
    /\ StartRun(dry, ll, TRUE)
    /\ ~ListLargeMode(ll)
    /\ dirs' = dirs \cup {"backup", "webp"}
    /\ images' = Recognized(order)
    /\ scanned' = TRUE
    /\ listing' = NoListing
    /\ pc' = "process"
    /\ exit_status' = -1

(***************************************************************************)
(* process_image, one action per filesystem step.                          *)
(***************************************************************************)
Bump(st, field, n) == [st EXCEPT ![field] = @ + n]

SavingsAny(original_size, new_size) == original_size - new_size > 0

SavingsOK(original_size, new_size) ==
    100 * (original_size - new_size) >= min_savings_pct * original_size

TooSmallKB(original_size) == original_size < skip_small \div 1024

TooSmall(original_size) == original_size < skip_small

\* Sizes the encoder may produce for an input of the given size: the largest
\* size that still saves min_savings, and one byte more.
EncodedSizes(size) ==
    LET edge == (size * (100 - min_savings_pct)) \div 100
    IN  {edge, edge + 1}

Encoded(c, n) == [id |-> c.id, gen |-> c.gen + 1, size |-> n, ok |-> TRUE]

Partial(c) == [id |-> c.id, gen |-> c.gen + 1, size |-> 0, ok |-> FALSE]

NextFile ==
    /\ idx' = idx + 1
    /\ cur' = NoCur
    /\ pc' = "process"

\* lines 189-217: size check, get_image_info, dry-run short cut.
\* os.path.getsize is outside the try block: a missing file ends the run.
ProcessBegin ==
    /\ pc = "process"
    /\ idx <= Len(images)
    /\ calls' = calls + 1
    /\ LET path == images[idx] IN
       IF ~Exists(fs, path)
       THEN /\ pc' = "exited"
            /\ exit_status' = 1
            /\ failed' = failed \cup {<<path, "stat">>}
            /\ UNCHANGED <<stats, idx, cur, outcome>>
       ELSE LET original_size == fs[path].size
                st == Bump(stats, "original_size", original_size)
            IN  IF TooSmall(original_size)
                THEN /\ stats' = Bump(st, "skipped", 1)
                     /\ outcome' = outcome \cup {<<path, "Skipped-TooSmall">>}
                     /\ NextFile
                     /\ UNCHANGED <<exit_status, failed>>
                ELSE IF ~fs[path].ok
                THEN /\ stats' = Bump(st, "errors", 1)
                     /\ failed' = failed \cup {<<path, "decode">>}
                     /\ outcome' = outcome \cup {<<path, "Errored">>}
                     /\ NextFile
                     /\ UNCHANGED exit_status
                ELSE IF args.dry_run
                THEN /\ stats' = Bump(Bump(st, "processed", 1),
                                      "new_size", original_size)
                     /\ outcome' = outcome \cup {<<path, "Processed">>}
                     /\ NextFile
                     /\ UNCHANGED <<exit_status, failed>>
                ELSE /\ stats' = st
                     /\ cur' = [NoCur EXCEPT !.path = path,
                                    !.original_size = original_size]
                     /\ pc' = "reencode"
                     /\ UNCHANGED <<idx, exit_status, failed, outcome>>
    /\ UNCHANGED <<fs, backup, webp, dirs, args, images, reported, listing,
                   runs, faults, start, replaced, firstOrig, scanned,
                   HAS_PIL, img, pagevars>>

\* optimize_jpeg / optimize_png writing output_path: the encoder succeeds
\* with some size, or raises (caught, returns False) with the output file
\* either untouched or left partially written.
Optimize(path, output_path) ==
    \/ \E n \in EncodedSizes(fs[path].size) :
          /\ fs' = Put(fs, output_path, Encoded(fs[path], n))
          /\ cur' = [cur EXCEPT !.success = TRUE]
          /\ UNCHANGED <<faults, failed>>
    \/ /\ faults < MaxFaults
       /\ faults' = faults + 1
       /\ failed' = failed \cup {<<path, "encode">>}
       /\ cur' = [cur EXCEPT !.success = FALSE]
       /\ \/ UNCHANGED fs
          \/ fs' = Put(fs, output_path, Partial(fs[path]))

\* lines 219-236: dispatch on the suffix.
Reencode ==
    /\ pc = "reencode"
    /\ LET path == cur.path
           temp_path == TempPath(path)
       IN  IF Suffix(path) \in {"jpg", "jpeg", "png"}
           THEN Optimize(path, temp_path)
           ELSE /\ cur' = [cur EXCEPT !.success = FALSE]
                /\ UNCHANGED <<fs, faults, failed>>
    /\ pc' = "decide"
    /\ UNCHANGED <<backup, webp, dirs, args, images, idx, stats, exit_status,
                   reported, listing, runs, start, replaced, firstOrig,
                   calls, scanned, HAS_PIL,
                   img, pagevars,
                   outcome>>

BackupOptimized(path, backup_path) ==
    IF Exists(backup, backup_path) THEN backup
    ELSE Put(backup, backup_path, fs[TempPath(path)])

BackupAlways(path, backup_path) == Put(backup, backup_path, fs[path])

\* The replacement made without a backup copy.
BackupNever(path, backup_path) == backup

\* line 249-250: the copy is made only when no backup exists yet.
BackupOriginal(path, backup_path) ==
    IF Exists(backup, backup_path) THEN backup
    ELSE Put(backup, backup_path, fs[path])

\* lines 238-250 and 256-264, and the handler of lines 275-279 when the
\* backup step raises.
Decide ==
    /\ pc = "decide"
    /\ LET path == cur.path
           temp_path == TempPath(path)
           original_size == cur.original_size
       IN  IF cur.success /\ Exists(fs, temp_path)
           THEN LET new_size == fs[temp_path].size IN
                IF SavingsOK(original_size, new_size)
                THEN \/ /\ backup' = BackupOriginal(path, BackupPath(path))
                        /\ dirs' = dirs \cup {"backup"}
                        /\ cur' = [cur EXCEPT !.new_size = new_size]
                        /\ pc' = "replace"
                        /\ UNCHANGED <<fs, stats, idx, faults, failed,
                                       outcome>>
                     \/ /\ faults < MaxFaults
                        /\ faults' = faults + 1
                        /\ failed' = failed \cup {<<path, "copy">>}
                        /\ stats' = Bump(stats, "errors", 1)
                        /\ fs' = Del(fs, temp_path)
                        /\ outcome' = outcome \cup {<<path, "Errored">>}
                        /\ NextFile
                        /\ UNCHANGED <<backup, dirs>>
                ELSE /\ fs' = Del(fs, temp_path)
                     /\ stats' = Bump(Bump(stats, "new_size", original_size),
                                      "skipped", 1)
                     /\ cur' = [cur EXCEPT !.new_size = new_size]
                     /\ outcome' = outcome \cup {<<path, "KeptOriginal">>}
                     /\ pc' = "webp"
                     /\ UNCHANGED <<backup, dirs, idx, faults, failed>>
           ELSE /\ stats' = Bump(stats, "new_size", original_size)
                /\ fs' = Del(fs, temp_path)
                /\ outcome' = outcome \cup {<<path, "KeptOriginal">>}
                /\ pc' = "webp"
                /\ UNCHANGED <<backup, dirs, idx, cur, faults, failed>>
    /\ UNCHANGED <<webp, args, images, exit_status, reported, listing, runs,
                   start, replaced, firstOrig, calls, scanned, HAS_PIL,
                   img, pagevars>>

\* lines 253-255: shutil.move(temp_path, path) and the counters.
Replace ==
    /\ pc = "replace"
    /\ LET path == cur.path
           temp_path == TempPath(path)
       IN  /\ fs' = Put(Del(fs, temp_path), path, fs[temp_path])
           /\ replaced' = replaced \cup {path}
           /\ outcome' = outcome \cup {<<path, "Replaced">>}
           /\ firstOrig' = IF Exists(firstOrig, path) THEN firstOrig
                           ELSE Put(firstOrig, path, start.fs[path])
    /\ stats' = Bump(Bump(stats, "new_size", cur.new_size), "processed", 1)
    /\ pc' = "webp"
    /\ UNCHANGED <<backup, webp, dirs, args, images, idx, cur, exit_status,
                   reported, listing, runs, faults, start, calls, scanned,
                   failed, HAS_PIL, img,
                   pagevars>>

\* create_webp's failure counted as an error of the file.
CreateWebpCounted ==
    /\ pc = "webp"
    /\ LET path == cur.path
           webp_path == WebpPath(path)
       IN  \/ /\ webp' = Put(webp, webp_path, path)
              /\ stats' = Bump(stats, "webp_created", 1)
              /\ UNCHANGED <<faults, failed, outcome>>
           \/ /\ faults < MaxFaults
              /\ faults' = faults + 1
              /\ failed' = failed \cup {<<path, "webp">>}
              /\ stats' = Bump(stats, "errors", 1)
              /\ UNCHANGED <<webp, outcome>>
           \/ /\ faults < MaxFaults
              /\ faults' = faults + 1
              /\ failed' = failed \cup {<<path, "mkdir">>}
              /\ stats' = Bump(stats, "errors", 1)
              /\ outcome' = outcome \cup {<<path, "Errored">>}
              /\ UNCHANGED webp
    /\ dirs' = dirs \cup {"webp"}
    /\ NextFile
    /\ UNCHANGED <<fs, backup, args, images, exit_status, reported, listing,
                   runs, start, replaced, firstOrig, calls, scanned, HAS_PIL,
                   img, pagevars>>

\* lines 266-273: the derived file; create_webp catches its own failure,
\* while an exception of webp_path.parent.mkdir reaches the handler of
\* lines 275-279 (the temp file is gone by then).
CreateWebp ==
    /\ pc = "webp"
    /\ LET path == cur.path
           webp_path == WebpPath(path)
       IN  \/ /\ webp' = Put(webp, webp_path, path)
              /\ stats' = Bump(stats, "webp_created", 1)
              /\ UNCHANGED <<faults, failed, outcome>>
           \/ /\ faults < MaxFaults
              /\ faults' = faults + 1
              /\ failed' = failed \cup {<<path, "webp">>}
              /\ UNCHANGED <<webp, stats, outcome>>
           \/ /\ faults < MaxFaults
              /\ faults' = faults + 1
              /\ failed' = failed \cup {<<path, "mkdir">>}
              /\ stats' = Bump(stats, "errors", 1)
              /\ outcome' = outcome \cup {<<path, "Errored">>}
              /\ UNCHANGED webp
    /\ dirs' = dirs \cup {"webp"}
    /\ NextFile
    /\ UNCHANGED <<fs, backup, args, images, exit_status, reported, listing,
                   runs, start, replaced, firstOrig, calls, scanned, HAS_PIL,
                   img, pagevars>>

\* lines 385-390: generate_report and the normal end of main.
Report ==
    /\ pc = "process"
    /\ idx > Len(images)
    /\ reported' = TRUE
    /\ exit_status' = 0
    /\ pc' = "exited"
    /\ UNCHANGED <<fs, backup, webp, dirs, args, images, idx, cur, stats,
                   listing, runs, faults, start, replaced, firstOrig, calls,
                   scanned, failed, HAS_PIL, img,
                   pagevars,
                   outcome>>

Next ==
    \/ \E dry \in BOOLEAN, ll \in ListArgs : MainNoPil(dry, ll)
    \/ \E dry \in BOOLEAN, ll \in ListArgs, order \in ScanOrders(fs) :
          MainListLarge(dry, ll, order)
    \/ \E dry \in BOOLEAN, ll \in ListArgs, order \in ScanOrders(fs) :
          MainOptimize(dry, ll, order)
    \/ ProcessBegin
    \/ Reencode
    \/ Decide
    \/ Replace
    \/ CreateWebp
    \/ Report

Spec == Init /\ [][Next]_vars

(***************************************************************************)
(* List-large mode over trees large enough for the listing to be cut: up   *)
(* to MaxListFiles files above the threshold of --list-large 10, up to     *)
(* MaxTies files of exactly the threshold and of one byte less, and an     *)
(* optional file with an extension that is not an image format.            *)
(***************************************************************************)
ListKB == 10

ListExts == <<"jpg", "png", "gif">>

ListTree(nb, ne, na, spread, txt) ==
    LET T == ListKB * 1024
        n == nb + ne + na
        SizeOf(k) == IF k <= nb THEN T - 1
                     ELSE IF k <= nb + ne THEN T
                     ELSE T + 1 + (k % spread) * 1024
        NameOf(k) == <<k, ListExts[(k % 3) + 1]>>
        tree == [p \in {NameOf(k) : k \in 1..n} |->
                    Content(p, SizeOf(p[1]), TRUE)]
    IN  IF txt
        THEN Put(tree, <<n + 1, "txt">>,
                 Content(<<n + 1, "txt">>, 2 * T, TRUE))
        ELSE tree

ListTrees ==
    {ListTree(nb, ne, na, spread, txt) :
        nb \in 0..MaxTies, ne \in 0..MaxTies, na \in 0..MaxListFiles,
        spread \in 1..2, txt \in BOOLEAN}

\* Two of the orders in which rglob may enumerate such a tree.
ListOrders(tree) ==
    LET m == Cardinality(DOMAIN tree)
        asc == [i \in 1..m |-> CHOOSE p \in DOMAIN tree : p[1] = i]
    IN  {asc, [i \in 1..m |-> asc[m + 1 - i]]}

InitList == InitFrom(ListTrees, {NoImg}, {<<>>})

NextList ==
    \E dry \in BOOLEAN, order \in ListOrders(fs) :
        MainListLarge(dry, <<ListKB>>, order)

SpecList == InitList /\ [][NextList]_vars

(***************************************************************************)
(* optimize_jpeg and optimize_png: the dimensions of the saved image.      *)
(* img is the opened image (format, stored width and height, the EXIF      *)
(* orientation tag, 1 when absent) and, once the function has run, the     *)
(* size of the image it saved.                                             *)
(***************************************************************************)
max_width == 1920
max_height == 1080

Abs(n) == IF n < 0 THEN -n ELSE n

\* Image.thumbnail((x, y)) on an image of w by h: the largest size of the
\* same aspect ratio within x by y, the free side rounded down or up to
\* whichever is closer in aspect ratio (down on a tie), at least 1; an
\* image already within the box keeps its size.
Thumbnail(w, h, x, y) ==
    IF x >= w /\ y >= h THEN <<w, h>>
    ELSE IF x * h >= w * y
    THEN LET fl == (y * w) \div h
             ce == IF (y * w) % h = 0 THEN fl ELSE fl + 1
             n == IF Abs(w * y - fl * h) <= Abs(w * y - ce * h)
                  THEN fl ELSE ce
         IN  <<IF n < 1 THEN 1 ELSE n, y>>
    ELSE LET fl == (x * h) \div w
             ce == IF (x * h) % w = 0 THEN fl ELSE fl + 1
             n == IF fl = 0 THEN 0
                  ELSE IF Abs(w * fl - x * h) * ce <= Abs(w * ce - x * h) * fl
                  THEN fl ELSE ce
         IN  <<x, IF n < 1 THEN 1 ELSE n>>

\* lines 96-98 and 115-117: the resize is made only for an image that
\* exceeds a bound.
Resized(w, h) ==
    IF w > max_width \/ h > max_height
    THEN Thumbnail(w, h, max_width, max_height)
    ELSE <<w, h>>

\* ImageOps.exif_transpose: orientations 5 to 8 turn the image by a quarter
\* turn, which exchanges width and height; 2 to 4 flip or half-turn it.
ExifTranspose(size, orientation) ==
    IF orientation \in 5..8 THEN <<size[2], size[1]>> ELSE size

\* Stored sizes at, just below and just above the bounds, and well above.
Widths == {1, 1080, 1081, max_width - 1, max_width, max_width + 1, 4000}

Heights == {1, max_height - 1, max_height, max_height + 1, 1920, 1921, 3000}

Orientations == 1..8

Images ==
    {[format |-> f, width |-> w, height |-> h, orientation |-> o,
      saved |-> <<>>] :
        f \in {"JPEG", "PNG"}, w \in Widths, h \in Heights,
        o \in Orientations}

\* optimize_jpeg: resize, then the orientation correction, then save.
optimize_jpeg ==
    /\ img.format = "JPEG"
    /\ img.saved = <<>>
    /\ img' = [img EXCEPT !.saved =
                  ExifTranspose(Resized(img.width, img.height),
                                img.orientation)]
    /\ UNCHANGED <<optvars, pagevars>>

\* optimize_png: resize, then save.
optimize_png ==
    /\ img.format = "PNG"
    /\ img.saved = <<>>
    /\ img' = [img EXCEPT !.saved = Resized(img.width, img.height)]
    /\ UNCHANGED <<optvars, pagevars>>

InitDims == InitFrom({EmptyTree}, Images, {<<>>})

NextDims ==
    \/ optimize_jpeg
    \/ optimize_png

SpecDims == InitDims /\ [][NextDims]_vars

(***************************************************************************)
(* The HTML rewriters: scripts/update_project_paths.py,                    *)
(* scripts/fix_volunteering_paths.py, scripts/update_subpages.py,          *)
(* scripts/update_root_pages.py and batch_update_pages.py.                 *)
(*                                                                         *)
(* The content of a page is a sequence of tokens.  A token is a record:    *)
(* k is the piece of text it stands for, and for a reference such as       *)
(* href="../assets/ the attribute a and the number d of "../" prefixes.    *)
(* A maximal run of white space is one token: "sp" (blanks only), "nl"     *)
(* (fewer than three line feeds in a row) or "nl3" (three or more), with   *)
(* d the number of blanks that end the run.  Tokens that no pattern of the *)
(* scripts looks at are the text token "x".                                *)
(***************************************************************************)
MaxPageRuns == 2   \* calls of a rewriter on the page
MaxDepth == 3      \* "../" prefixes of a reference in an input page

Tok(k) == [k |-> k, a |-> "", d |-> 0]

Ref(a, k, d) == [k |-> k, a |-> a, d |-> d]

Sp(d) == [k |-> "sp", a |-> "", d |-> d]

Nl(d) == [k |-> "nl", a |-> "", d |-> d]

Nl3(d) == [k |-> "nl3", a |-> "", d |-> d]

IsWs(t) == t.k \in {"sp", "nl", "nl3"}

\* Blanks written right after a run of white space lengthen that run.
RECURSIVE MergeWs(_)
MergeWs(s) ==
    IF Len(s) < 2 THEN s
    ELSE IF IsWs(s[1]) /\ s[2].k = "sp"
    THEN MergeWs(<<[s[1] EXCEPT !.d = @ + s[2].d]>> \o SubSeq(s, 3, Len(s)))
    ELSE <<s[1]>> \o MergeWs(Tail(s))

Kinds(s) == {s[i].k : i \in 1..Len(s)}

\* re.search(START.*?END, content, re.DOTALL)
Matches(s, starts, ends) ==
    \E i \in 1..Len(s) : \E j \in (i + 1)..Len(s) :
        s[i].k \in starts /\ s[j].k \in ends

\* re.sub(START.*?END, repl, content, flags=re.DOTALL) from position i on:
\* leftmost match first, shortest span, then on after the match.
RECURSIVE SubSpan(_, _, _, _, _)
SubSpan(s, i, starts, ends, repl) ==
    IF i > Len(s) THEN <<>>
    ELSE LET E == {j \in (i + 1)..Len(s) : s[j].k \in ends} IN
         IF s[i].k \in starts /\ E # {}
         THEN LET j == CHOOSE e \in E : \A f \in E : e <= f
              IN  repl \o SubSpan(s, j + 1, starts, ends, repl)
         ELSE <<s[i]>> \o SubSpan(s, i + 1, starts, ends, repl)

\* The index of the first token at or after i that is not white space.
RECURSIVE SkipWs(_, _)
SkipWs(s, i) == IF i <= Len(s) /\ IsWs(s[i]) THEN SkipWs(s, i + 1) ELSE i

\* str.strip()
RECURSIVE Strip(_)
Strip(s) ==
    IF s = <<>> THEN s
    ELSE IF IsWs(s[1]) THEN Strip(Tail(s))
    ELSE IF IsWs(s[Len(s)]) THEN Strip(SubSeq(s, 1, Len(s) - 1))
    ELSE s

\* str.find(sub): index of the first token of one of the kinds, 0 for -1.
Find(s, kinds) ==
    LET I == {i \in 1..Len(s) : s[i].k \in kinds}
    IN  IF I = {} THEN 0 ELSE CHOOSE i \in I : \A j \in I : i <= j

\* A reference into assets/: a plain one, the link to style.css or the
\* link to dark-mode.css.
IsAssetRef(t) == t.k \in {"assets", "style", "dark"}

\* The four prefixing substitutions the two path scripts share:
\* href="assets/, src="assets/, data="assets/ and href="index.html.
PrefixOnce(t) ==
    IF t.d = 0 /\ \/ IsAssetRef(t) /\ t.a \in {"href", "src", "data"}
                  \/ t.k = "index" /\ t.a = "href"
    THEN [t EXCEPT !.d = 1]
    ELSE t

\* re.sub(r'\.\./\.\./', '../', content): every pair of prefixes becomes one.
CollapsePairs(t) ==
    IF IsAssetRef(t) \/ t.k = "index"
    THEN [t EXCEPT !.d = @ - (@ \div 2)]
    ELSE t

\* update_project_paths.py: the loop over REPLACEMENTS.
update_file_content(content) ==
    [i \in 1..Len(content) |-> PrefixOnce(content[i])]

\* fix_volunteering_paths.py: the five substitutions of fix_paths.
fix_paths_content(content) ==
    [i \in 1..Len(content) |-> CollapsePairs(PrefixOnce(content[i]))]

\* The templates of update_subpages.py (d = 1, "../assets/") and of
\* update_root_pages.py (d = 0, "assets/").
NEW_CSS(d) ==
    <<Sp(2), Tok("css_cmt"), Ref("href", "style", d),
      Ref("href", "assets", d), Ref("href", "dark", d)>>

NEW_SIDEBAR(d) ==
    <<Sp(2), Tok("sidebar_cmt"), Nl(2), Tok("hdr_open"),
      Ref("src", "assets", d), Ref("href", "index", d), Tok("hdr_close"),
      Nl(2), Tok("end_hdr")>>

NEW_FOOTER ==
    <<Sp(2), Tok("ftr_cmt"), Nl(2), Tok("footer_open"), Nl(2), Tok("btt")>>

\* NEW_SCRIPTS + '\n</body>'
NEW_SCRIPTS(d) ==
    <<Sp(2), Tok("vendor"), Ref("src", "assets", d), Tok("script_body")>>

\* '</script>' and '</body>' with nothing but white space between them: with
\* the single line feed of the template, or with other white space.
ScriptBody == {"script_body", "script_body_ws"}

\* re.sub(r'<body>\s*', '<body>...mobile-nav-toggle...', content) when the
\* page does not contain 'mobile-nav-toggle'.
RECURSIVE SubBody(_, _)
SubBody(s, i) ==
    IF i > Len(s) THEN <<>>
    ELSE IF s[i].k = "body_open"
    THEN <<Tok("body_open"), Nl(2), Tok("toggle"), Nl(0)>>
             \o SubBody(s, SkipWs(s, i + 1))
    ELSE <<s[i]>> \o SubBody(s, i + 1)

AddToggle(s) == IF "toggle" \in Kinds(s) THEN s ELSE SubBody(s, 1)

\* re.sub(r'\s*<!-- End Header -->\s*<!-- End Header -->', '', content)
RECURSIVE RemoveDoubleEnd(_, _)
RemoveDoubleEnd(s, i) ==
    IF i > Len(s) THEN <<>>
    ELSE LET a == SkipWs(s, i)
             b == SkipWs(s, a + 1)
         IN  IF /\ a <= Len(s) /\ s[a].k = "end_hdr"
                /\ b <= Len(s) /\ s[b].k = "end_hdr"
             THEN RemoveDoubleEnd(s, b + 1)
             ELSE <<s[i]>> \o RemoveDoubleEnd(s, i + 1)

\* re.sub(r'(<!-- End Header -->)\s*\1', r'\1', content)
RECURSIVE DedupEnd(_, _)
DedupEnd(s, i) ==
    IF i > Len(s) THEN <<>>
    ELSE LET b == SkipWs(s, i + 1)
         IN  IF s[i].k = "end_hdr" /\ b <= Len(s) /\ s[b].k = "end_hdr"
             THEN <<s[i]>> \o DedupEnd(s, b + 1)
             ELSE <<s[i]>> \o DedupEnd(s, i + 1)

\* re.sub(r'\n{3,}', '\n\n', content)
CollapseNewlines(s) ==
    [i \in 1..Len(s) |-> IF s[i].k = "nl3" THEN Nl(s[i].d) ELSE s[i]]

\* The footer, scripts, toggle and clean-up steps the two scripts share.
RewriteTail(c2, d) ==
    LET c3 == SubSpan(c2, 1, {"ftr_cmt"}, {"btt"}, NEW_FOOTER)
        c4 == SubSpan(c3, 1, {"vendor"}, ScriptBody, NEW_SCRIPTS(d))
    IN  MergeWs(CollapseNewlines(DedupEnd(AddToggle(c4), 1)))

\* update_subpages.py, update_html_file: lines 108-148.
update_subpage_content(content) ==
    LET c1 == IF Matches(content, {"css_cmt"}, {"dark"})
              THEN SubSpan(content, 1, {"css_cmt"}, {"dark"}, NEW_CSS(1))
              ELSE SubSpan(content, 1, {"style"}, {"dark"}, NEW_CSS(1))
        c2 == IF Matches(c1, {"hdr_cmt"}, {"end_hdr"})
              THEN RemoveDoubleEnd(
                       SubSpan(c1, 1, {"hdr_cmt"}, {"end_hdr"},
                               NEW_SIDEBAR(1)), 1)
              ELSE SubSpan(c1, 1, {"hdr_open"}, {"hdr_close"},
                           NEW_SIDEBAR(1))
    IN  RewriteTail(c2, 1)

\* update_root_pages.py, update_html_file: lines 107-134.
update_root_content(content) ==
    LET c1 == SubSpan(content, 1, {"css_cmt"}, {"dark"}, NEW_CSS(0))
        c2 == SubSpan(c1, 1, {"hdr_cmt"}, {"end_hdr"}, NEW_SIDEBAR(0))
    IN  RewriteTail(c2, 0)

\* batch_update_pages.py: the templates.  MODERN_HEAD is formatted with
\* the title; MODERN_FOOTER runs to the end of the document.
MODERN_HEAD(title) ==
    <<[k |-> "head", a |-> title, d |-> 0], Ref("href", "assets", 0),
      Tok("css_cmt"), Ref("href", "style", 0), Ref("href", "assets", 0),
      Ref("href", "dark", 0), Tok("head_end")>>

MODERN_HEADER ==
    <<Nl(0), Tok("body_open"), Nl(2), Tok("toggle"), Nl(2), Tok("hdr_cmt"),
      Nl(2), Tok("hdr_open"), Ref("src", "assets", 0),
      Ref("href", "index", 0), Tok("hdr_close"), Tok("end_hdr")>>

MODERN_FOOTER ==
    <<Tok("footer_open"), Tok("btt"), Tok("vendor"), Ref("src", "assets", 0),
      Tok("script_body_ws"), Tok("html_end")>>

\* extract_main_content; None and the empty string are both <<>>.
extract_main_content(html) ==
    LET h1 == Find(html, {"hdr_close"})
        header_end == IF h1 # 0 THEN h1 ELSE Find(html, {"main_open"})
        f1 == Find(html, {"footer_open"})
        footer_start == IF f1 # 0 THEN f1 ELSE Find(html, {"vendor"})
    IN  IF header_end = 0 \/ footer_start = 0 THEN <<>>
        ELSE LET main_content ==
                     Strip(SubSeq(html, header_end, footer_start - 1))
             IN  IF main_content # <<>> /\ main_content[1].k = "hdr_close"
                 THEN Strip(Tail(main_content))
                 ELSE main_content

\* extract_title_from_breadcrumb
extract_title_from_breadcrumb(content) ==
    LET i == Find(content, {"h2"})
    IN  IF i # 0 THEN content[i].a ELSE "Project Details"

\* batch_update_pages.py, update_html_file: lines 184-192.
batch_new_html(main_content) ==
    MODERN_HEAD(extract_title_from_breadcrumb(main_content))
        \o MODERN_HEADER \o <<Nl(0)>> \o main_content \o <<Nl(2)>>
        \o MODERN_FOOTER

\* The pages the rewriters are run on: an optional style-sheet block, body
\* tag, header, main content, footer and script block, in document order.
CssParts ==
    {<<>>,
     <<Tok("css_cmt"), Ref("href", "style", 0), Ref("href", "dark", 0)>>,
     <<Ref("href", "style", 0), Ref("href", "dark", 0)>>}

BodyParts ==
    {<<>>,
     <<Tok("body_open"), Nl3(0)>>,
     <<Tok("body_open"), Nl(2), Tok("toggle"), Nl(0)>>}

HeaderParts ==
    {<<>>,
     <<Tok("hdr_open"), Tok("hdr_close")>>,
     <<Tok("hdr_cmt"), Tok("hdr_open"), Tok("hdr_close"), Tok("end_hdr")>>,
     <<Tok("hdr_cmt"), Tok("hdr_open"), Tok("hdr_close"), Tok("end_hdr"),
       Nl(0), Tok("end_hdr")>>}

MainParts ==
    {<<>>, <<Tok("x")>>, <<Nl3(0)>>,
     <<Tok("main_open"), [k |-> "h2", a |-> "Title", d |-> 0], Tok("x")>>}
    \cup {<<Ref(a, k, d)>> :
             a \in {"href", "src"}, k \in {"assets", "index"},
             d \in 0..MaxDepth}

FooterParts ==
    {<<>>, <<Tok("footer_open")>>,
     <<Tok("ftr_cmt"), Tok("footer_open"), Tok("btt")>>}

ScriptParts == {<<>>, <<Tok("vendor"), Tok("script_body_ws")>>}

Pages ==
    {c \o b \o h \o m \o f \o sc :
        c \in CssParts, b \in BodyParts, h \in HeaderParts, m \in MainParts,
        f \in FooterParts, sc \in ScriptParts}

\* The test every guarded rewriter makes before it writes.
ChangedAlways(content, original) == TRUE

Changed(content, original) == content # original

\* "if content != original: write, return True; else: return False"
WriteIfChanged(fn, content) ==
    /\ pruns < MaxPageRuns
    /\ pruns' = pruns + 1
    /\ IF Changed(content, page)
       THEN /\ page' = content
            /\ call' = [fn |-> fn, read |-> page, content |-> content,
                        wrote |-> TRUE, ret |-> TRUE]
       ELSE /\ page' = page
            /\ call' = [fn |-> fn, read |-> page, content |-> content,
                        wrote |-> FALSE, ret |-> FALSE]
    /\ UNCHANGED <<optvars, img>>

\* update_project_paths.py, update_file
UpdateFile == WriteIfChanged("update_file", update_file_content(page))

\* fix_volunteering_paths.py, fix_paths
FixPaths == WriteIfChanged("fix_paths", fix_paths_content(page))

\* update_subpages.py, update_html_file
UpdateSubpage ==
    WriteIfChanged("update_subpages", update_subpage_content(page))

\* update_root_pages.py, update_html_file
UpdateRootPage ==
    WriteIfChanged("update_root_pages", update_root_content(page))

\* batch_update_pages.py, update_html_file: no main content, no write;
\* otherwise the new document is written whatever it is.  Nothing was
\* transformed in the first case: the record keeps the content read.
BatchUpdate ==
    /\ pruns < MaxPageRuns
    /\ pruns' = pruns + 1
    /\ LET main_content == extract_main_content(page) IN
       IF main_content = <<>>
       THEN /\ page' = page
            /\ call' = [fn |-> "batch_update_pages", read |-> page,
                        content |-> page, wrote |-> FALSE, ret |-> FALSE]
       ELSE LET new_html == batch_new_html(main_content) IN
            /\ page' = new_html
            /\ call' = [fn |-> "batch_update_pages", read |-> page,
                        content |-> new_html, wrote |-> TRUE, ret |-> TRUE]
    /\ UNCHANGED <<optvars, img>>

InitPages == InitFrom({EmptyTree}, {NoImg}, Pages)

NextPages ==
    \/ UpdateFile
    \/ FixPaths
    \/ UpdateSubpage
    \/ UpdateRootPage
    \/ BatchUpdate

SpecPages == InitPages /\ [][NextPages]_vars

(***************************************************************************)
(* Properties.                                                             *)
(***************************************************************************)

\* C1: while process_image handles a file, every step either leaves that
\* file byte-identical or overwrites it with its re-encoded bytes, and the
\* latter only when (old size - new size) / old size >= 0.10.
C1_ReplaceOnlyWithSavings ==
    [][\A p \in DOMAIN fs :
          p = cur.path =>
             \/ (p \in DOMAIN fs' /\ fs'[p] = fs[p])
             \/ /\ p \in DOMAIN fs'
                /\ fs'[p].id = fs[p].id
                /\ fs'[p].gen = fs[p].gen + 1
                /\ 10 * (fs[p].size - fs'[p].size) >= fs[p].size]_vars

\* A file replaced by the first run is kept by the second because the new
\* encoding saves less than a tenth: it still holds the first encoding.
C1_Witness ==
    /\ pc = "webp"
    /\ cur.path \in DOMAIN firstOrig
    /\ cur.path \notin replaced
    /\ cur.success
    /\ 10 * (cur.original_size - cur.new_size) < cur.original_size
    /\ fs[cur.path] = start.fs[cur.path]
    /\ fs[cur.path].gen = 1

\* C2 as stated: every file the current run replaced has a backup equal to
\* the content the file had when this run started.
C2_BackupIsPreRunContent ==
    \A p \in replaced :
        Exists(backup, BackupPath(p)) /\ backup[BackupPath(p)] = start.fs[p]

\* C2 amended: every file the current run replaced has a backup, and the
\* backup equals the content the file had at the start of the first run that
\* replaced it.
C2_BackupIsFirstOriginal ==
    \A p \in replaced :
        /\ Exists(backup, BackupPath(p))
        /\ backup[BackupPath(p)] = firstOrig[p]
        /\ backup[BackupPath(p)].gen = 0
        /\ (backup[BackupPath(p)] = start.fs[p] <=> start.fs[p].gen = 0)

\* The second run replaces a file the first run had already replaced.
C2_Witness ==
    /\ runs = 2
    /\ \E p \in replaced :
          /\ Exists(fs, p)
          /\ fs[p].gen = 2
          /\ Exists(backup, BackupPath(p))
          /\ start.fs[p].gen = 1

\* C3: a backup that exists is never changed or removed by any step, and
\* every backup equals the content its file had before the first run that
\* replaced it.
C3_BackupIdempotent ==
    /\ [][\A b \in DOMAIN backup :
             b \in DOMAIN backup' /\ backup'[b] = backup[b]]_vars
    /\ [](\A p \in DOMAIN firstOrig :
             Exists(backup, BackupPath(p))
                 /\ backup[BackupPath(p)] = firstOrig[p])

\* The second run is about to replace a file again and its backup from the
\* first run is still the original.
C3_Witness ==
    /\ runs = 2
    /\ pc = "replace"
    /\ cur.path \in DOMAIN firstOrig
    /\ backup[BackupPath(cur.path)] = firstOrig[cur.path]
    /\ fs[cur.path] # backup[BackupPath(cur.path)]

RECURSIVE SumSizes(_, _)
SumSizes(tree, S) ==
    IF S = {} THEN 0
    ELSE LET x == CHOOSE y \in S : TRUE
         IN  tree[x].size + SumSizes(tree, S \ {x})

FailedFiles(kinds) == {f[1] : f \in {g \in failed : g[2] \in kinds}}

\* C4: a run with --dry-run changes nothing in the three trees, the two
\* derived roots included, and its report counts every readable file of at
\* least the minimum size as processed, with its size in both byte totals.
C4_DryRunTouchesNothing ==
    args.dry_run =>
        /\ Snapshot = start
        /\ reported =>
              LET rec == {p \in DOMAIN start.fs : Suffix(p) \in formats}
                  good == {p \in rec : /\ start.fs[p].ok
                                       /\ start.fs[p].size >= 10240}
              IN  /\ stats.processed = Cardinality(good)
                  /\ stats.new_size = SumSizes(start.fs, good)
                  /\ stats.original_size = SumSizes(start.fs, rec)

\* C5: the process_image call of a file below skip_small is one step that
\* counts the file as skipped and leaves all three trees as they were.
C5_SmallFileUntouched ==
    [][(/\ pc = "process"
        /\ idx <= Len(images)
        /\ Exists(fs, images[idx])
        /\ fs[images[idx]].size < 10240)
       => /\ fs' = fs
          /\ backup' = backup
          /\ webp' = webp
          /\ stats'.skipped = stats.skipped + 1
          /\ stats'.processed = stats.processed
          /\ stats'.errors = stats.errors
          /\ pc' = "process"
          /\ idx' = idx + 1]_vars

\* A non-dry run has just skipped a file of 10239 bytes.
C5_Witness ==
    /\ pc = "process"
    /\ ~args.dry_run
    /\ idx > 1
    /\ Exists(fs, images[idx - 1])
    /\ fs[images[idx - 1]].size = 10239
    /\ stats.skipped = 1
    /\ ~Exists(webp, WebpPath(images[idx - 1]))
    /\ ~Exists(backup, BackupPath(images[idx - 1]))

\* C6: an optimize run always ends with the summary report after having
\* called process_image for every discovered file, and errors is the number
\* of files whose handling failed.
C6_FaultIsolation ==
    (pc = "exited" /\ HAS_PIL /\ ~ListLargeMode(args.list_large))
        => /\ reported
           /\ exit_status = 0
           /\ calls = Len(images)
           /\ stats.errors =
                 Cardinality(FailedFiles({"stat", "decode", "encode",
                                          "copy", "webp"}))

\* C7: between two files, errors is the number of files handled so far for
\* which a decode or an encode step failed.
C7_EveryErrorCounted ==
    pc \in {"process", "exited"}
        => stats.errors =
              Cardinality(FailedFiles({"decode", "encode", "copy", "webp"}))

\* C8: a run without the imaging library has exited with a non-zero status
\* without scanning, creating a directory or writing a file.
C8_NoPilExitsFirst ==
    ~HAS_PIL =>
        /\ pc = "exited"
        /\ exit_status # 0
        /\ Snapshot = start
        /\ ~scanned
        /\ calls = 0
        /\ listing = NoListing

\* The library is missing in a run given --dry-run and --list-large 10 on a
\* fresh tree that holds images.
C8_Witness ==
    /\ ~HAS_PIL
    /\ args.dry_run
    /\ args.list_large = <<10>>
    /\ DOMAIN fs # {}
    /\ dirs = {}
    /\ exit_status = 1

\* C10: a run given --list-large, whatever the number, lists and exits with
\* status 0 without calling process_image or changing any tree.
C10_ListLargeBypasses ==
    (args.list_large # <<>> /\ HAS_PIL)
        => /\ pc = "exited"
           /\ exit_status = 0
           /\ calls = 0
           /\ Snapshot = start
           /\ listing # NoListing

\* The listing shows the files of Q: the total is their number, the rows are
\* distinct files of Q with their sizes, largest first, and they are the 50
\* largest when Q has more than 50 files.
ListingShows(Q) ==
    LET rows == listing.rows
        shown == {rows[i][1] : i \in 1..Len(rows)}
    IN  /\ listing.total = Cardinality(Q)
        /\ Len(rows) = (IF Cardinality(Q) < 50 THEN Cardinality(Q) ELSE 50)
        /\ Cardinality(shown) = Len(rows)
        /\ shown \subseteq Q
        /\ \A i \in 1..Len(rows) : rows[i][2] = fs[rows[i][1]].size
        /\ \A i, j \in 1..Len(rows) : i < j => rows[i][2] >= rows[j][2]
        /\ \A q \in Q \ shown, i \in 1..Len(rows) : rows[i][2] >= fs[q].size

ImageFiles == {p \in DOMAIN fs : Suffix(p) \in {"jpg", "jpeg", "png", "gif"}}

\* C9 as stated: list-large mode lists the image files of at least
\* KB * 1024 bytes, a file of exactly that size included.
C9_ListsAtOrAbove ==
    listing # NoListing =>
        ListingShows({p \in ImageFiles :
                         fs[p].size >= args.list_large[1] * 1024})

\* C9 amended: list-large mode lists the image files of more than
\* KB * 1024 bytes, largest first, at most 50 rows and the full count; a
\* file of exactly KB * 1024 bytes is not listed.
C9_ListsStrictlyLarger ==
    listing # NoListing =>
        ListingShows({p \in ImageFiles :
                         fs[p].size > args.list_large[1] * 1024})

\* 52 files qualify, 50 are shown, and the tree also holds a file of exactly
\* the threshold and a file that is not an image.
C9_Witness ==
    /\ listing.total = 52
    /\ Len(listing.rows) = 50
    /\ \E p \in ImageFiles : fs[p].size = args.list_large[1] * 1024
    /\ \E p \in DOMAIN fs : p \notin ImageFiles
    /\ listing.rows[1][2] > listing.rows[50][2]

(***************************************************************************)
(* C11.  The derived-format step.                                          *)
(***************************************************************************)
\* The step taken at lines 266-273: the derived file is written and counted,
\* or the write fails and nothing is counted; the source tree, the backups,
\* the set of replaced files and the other counters are left alone.
WebpStepOK ==
    LET webp_path == WebpPath(cur.path) IN
    /\ \/ /\ stats'.webp_created = stats.webp_created + 1
          /\ Exists(webp', webp_path) /\ webp'[webp_path] = cur.path
          /\ failed' = failed
       \/ /\ stats'.webp_created = stats.webp_created
          /\ webp' = webp
          /\ <<cur.path, "webp">> \in failed'
    /\ stats'.errors = stats.errors
    /\ stats'.processed = stats.processed
    /\ stats'.skipped = stats.skipped
    /\ fs' = fs /\ backup' = backup /\ replaced' = replaced

C12_OtherFormatSkipped ==
    [][(cur.path # <<>> /\ Suffix(cur.path) \notin {"jpg", "jpeg", "png"}) =>
          /\ pc = "reencode" => fs' = fs /\ pc' = "decide"
          /\ pc = "decide" => /\ fs' = fs
                              /\ stats'.skipped = stats.skipped + 1
                              /\ pc' = "webp"
          /\ pc = "webp" =>
                \/ Exists(webp', WebpPath(cur.path))
                \/ <<cur.path, "webp">> \in failed']_vars

(***************************************************************************)
(* C13.  The rewriters write a page back only if its content changed.      *)
(***************************************************************************)
\* C13: after a call of any of the five rewriters, if the content it
\* computed equals the content it read then it did not write the file and
\* it returned False; put the other way round, a call that wrote the file
\* wrote a content that differs from the one it read.
C13_WriteOnlyIfChanged ==
    call.fn # "" =>
        /\ call.content = call.read => ~call.wrote /\ ~call.ret
        /\ call.wrote => page = call.content /\ page # call.read
        /\ ~call.wrote => page = call.read

\* A second call that found nothing to change in a page whose references
\* carry the prefix, and did not write.
C13_Witness ==
    /\ pruns = 2
    /\ call.fn = "fix_paths"
    /\ call.content = call.read /\ ~call.wrote /\ ~call.ret
    /\ \E i \in 1..Len(page) : IsAssetRef(page[i]) /\ page[i].d = 1

\* The unguarded rewriter wrote a page, and the content changed.
C13_BatchWrote ==
    /\ call.fn = "batch_update_pages" /\ call.wrote
    /\ "hdr_close" \in Kinds(call.read)

(***************************************************************************)
(* C14.  Backup before overwrite.                                          *)
(***************************************************************************)
\* A file of assets/img that holds re-encoded bytes of itself.
HoldsReencoded(tree, p) == Exists(tree, p) /\ tree[p].id = p /\ tree[p].gen > 0

\* C14: in every state, a source path that holds re-encoded bytes has a
\* backup at the mirrored path; every step that puts re-encoded bytes on a
\* source path starts in a state where that backup already exists; and no
\* step removes a file from the backup tree.
C14_BackupBeforeMove ==
    /\ [](\A p \in DOMAIN fs :
             HoldsReencoded(fs, p) => Exists(backup, BackupPath(p)))
    /\ [][/\ \A p \in DOMAIN fs' :
                (HoldsReencoded(fs', p) /\ (~Exists(fs, p) \/ fs[p] # fs'[p]))
                    => Exists(backup, BackupPath(p))
          /\ DOMAIN backup \subseteq DOMAIN backup']_vars

\* Between the move and the derived-format step: the source holds the
\* re-encoded bytes and the backup holds the original.
C14_Witness ==
    /\ pc = "webp"
    /\ HoldsReencoded(fs, cur.path)
    /\ Exists(backup, BackupPath(cur.path))
    /\ backup[BackupPath(cur.path)].gen = 0

(***************************************************************************)
(* C15.  The per-file state machine.                                       *)
(***************************************************************************)
\* The terminal states process_image has put a file in during this run.
StatesOf(p) == {o[2] : o \in {x \in outcome : x[1] = p}}

\* C15: every file whose process_image call has returned is in exactly one
\* terminal state: Skipped-TooSmall, Errored, Replaced or KeptOriginal in a
\* normal run, and Skipped-TooSmall, Errored or Processed in a dry run.
C15_OneTerminalState ==
    pc \in {"process", "exited"} =>
        \A i \in 1..(idx - 1) :
            /\ Cardinality(StatesOf(images[i])) = 1
            /\ StatesOf(images[i]) \subseteq
                  IF args.dry_run
                  THEN {"Skipped-TooSmall", "Errored", "Processed"}
                  ELSE {"Skipped-TooSmall", "Errored", "Replaced",
                        "KeptOriginal"}

(***************************************************************************)
(* C16.  Path isolation between the files of one run.                      *)
(***************************************************************************)
\* The file k is the same, or absent, in both trees.
SameAt(t1, t2, k) ==
    /\ Exists(t1, k) <=> Exists(t2, k)
    /\ Exists(t1, k) => t1[k] = t2[k]

\* C16: the temp, backup and derived paths of two distinct discovered files
\* are distinct and no temp path is a discovered file; and while
\* process_image handles one file, no step changes the source, temp,
\* backup or derived path of another discovered file.
C16_PathIsolation ==
    /\ [](\A i, j \in 1..Len(images) :
             i # j =>
                /\ TempPath(images[i]) # images[j]
                /\ TempPath(images[i]) # TempPath(images[j])
                /\ BackupPath(images[i]) # BackupPath(images[j])
                /\ WebpPath(images[i]) # WebpPath(images[j]))
    /\ [][(pc \in {"reencode", "decide", "replace", "webp"}) =>
             \A i \in 1..Len(images) :
                images[i] # cur.path =>
                   (/\ SameAt(fs, fs', images[i])
                    /\ SameAt(fs, fs', TempPath(images[i]))
                    /\ SameAt(backup, backup', BackupPath(images[i]))
                    /\ SameAt(webp, webp', WebpPath(images[i])))]_vars

(***************************************************************************)
(* C17.  No orphaned temp file.                                            *)
(***************************************************************************)
\* C17: every step that ends a process_image call which had got as far as
\* choosing its temp path (replaced, savings too small, re-encode failed
\* with or without a partial temp file, exception) leaves no file at that
\* temp path; and between two files, and after the run, no file of
\* assets/img holds bytes that were produced from another file.
C17_NoOrphanedTemp ==
    /\ [][(pc \in {"decide", "replace", "webp"} /\ pc' = "process") =>
             ~Exists(fs', TempPath(cur.path))]_vars
    /\ [](pc \in {"process", "exited"} =>
             \A p \in DOMAIN fs : fs[p].id = p)

\* process_image has returned through its exception handler for a file
\* whose temp file had been written, and the temp file is gone.
C17_Witness ==
    /\ pc = "process" /\ idx > 1
    /\ <<images[idx - 1], "copy">> \in failed
    /\ ~Exists(fs, TempPath(images[idx - 1]))
    /\ Exists(fs, images[idx - 1])

(***************************************************************************)
(* C18.  The downscale bound.                                              *)
(***************************************************************************)
\* C18: the image saved by optimize_jpeg or optimize_png is at most
\* max_width wide and max_height high, and an input that is within both
\* bounds is saved with the width and height it has.
C18_DownscaleBound ==
    img.saved # <<>> =>
        /\ img.saved[1] <= max_width
        /\ img.saved[2] <= max_height
        /\ (img.width <= max_width /\ img.height <= max_height)
              => img.saved = <<img.width, img.height>>

\* The same for PNG alone, where no orientation correction is made.
C18_PngBound ==
    (img.saved # <<>> /\ img.format = "PNG") =>
        /\ img.saved[1] <= max_width
        /\ img.saved[2] <= max_height
        /\ (img.width <= max_width /\ img.height <= max_height)
              => img.saved = <<img.width, img.height>>

(***************************************************************************)
(* C19.  Byte totals.                                                      *)
(***************************************************************************)
\* C19: between two files and at the end of the run, original_size minus
\* new_size is the sum, over the files this run replaced, of the size the
\* file had when the run started minus the size of its re-encoded bytes;
\* files that were skipped as too small or that errored add nothing.
\* (Stated for the runs in which every replaced file still holds its
\* re-encoded bytes.)
C19_ByteTotals ==
    (/\ pc \in {"process", "exited"}
     /\ \A p \in replaced : HoldsReencoded(fs, p)) =>
        stats.original_size - stats.new_size =
            SumSizes(start.fs, replaced) - SumSizes(fs, replaced)

(***************************************************************************)
(* C20.  Counter completeness.                                             *)
(***************************************************************************)
\* C20: after each process_image call the three counters have grown by one
\* in total, so between two files processed + skipped + errors is the
\* number of calls that have returned, and when the report is printed it
\* is the number of discovered files.
C20_CountersAddUp ==
    (pc = "process" \/ (pc = "exited" /\ reported)) =>
        /\ stats.processed + stats.skipped + stats.errors = idx - 1
        /\ reported => idx - 1 = Len(images)

(***************************************************************************)
(* C21.  fix_paths applied twice.                                          *)
(***************************************************************************)
\* A reference of the kinds fix_paths rewrites that carries at least one
\* "../" prefix.
IsPrefixedRef(t) == (IsAssetRef(t) \/ t.k = "index") /\ t.d >= 1

\* C21: after a call of fix_paths, applying fix_paths to the content it
\* produced gives that content again (a second call would report no
\* change), and every reference of the content it read that already carried
\* one or more "../" prefixes is the same in the content it produced.
C21_FixPathsIdempotent ==
    call.fn = "fix_paths" =>
        /\ fix_paths_content(call.content) = call.content
        /\ \A i \in 1..Len(call.read) :
               IsPrefixedRef(call.read[i]) =>
                   call.content[i] = call.read[i]

(***************************************************************************)
(* C22.  The template rewriters run twice.                                 *)
(***************************************************************************)
TemplateRewriters ==
    {"update_subpages", "update_root_pages", "batch_update_pages"}

\* C22: when the page is the output of a call of one of the three template
\* rewriters, a further call of the same rewriter leaves the content of the
\* page as it is.
C22_TemplateIdempotent ==
    [][(/\ call.fn \in TemplateRewriters
        /\ call'.fn = call.fn
        /\ pruns' = pruns + 1) => page' = page]_vars

====
